---- MODULE Spec2Model ----
(***************************************************************************)
(* A model of connection.py: ConnectionPool, a fixed-size pool of          *)
(* connections handed out by the context manager Get() and observed by     *)
(* Stats().  Worker threads run Get scopes statement by statement; the     *)
(* Queue.LifoQueue operations are atomic (the queue has its own mutex),    *)
(* and so is each dict statement (one bytecode under the interpreter       *)
(* lock).  The RLock self.lock is never re-entered by Get, so it is        *)
(* modelled by its owner alone.  The second part models enums.py: the      *)
(* constructor of Enum, entry by entry, and its three accessors.           *)
(***************************************************************************)
EXTENDS Integers, Sequences, FiniteSets, TLC

\* ---- bounds of the model ------------------------------------------------
NumThreads == 2
MaxSize == 2
MaxClock == 1

Threads == 1..NumThreads
Sizes == 1..MaxSize
Datas == {"job1", "job2"}

\* Python's None and a present value, for `con` and `timeout`.
None == <<>>
Some(x) == <<x>>
Val(o) == o[1]

\* timeout : double | None.  None waits forever, 0 never waits, 1 stands for
\* every positive duration (the moment it expires is chosen by the scheduler).
Timeouts == {None, Some(0), Some(1)}

\* How the caller's with-block ends.
Hows == {"normal", "return", "raise"}

VARIABLES
  size,         \* the constructor's argument
  made,         \* number of get_connection() calls so far
  built,        \* TRUE once __init__ has returned
  clock,        \* what datetime.datetime.utcnow() returns
  lock,         \* owner of self.lock: None or Some(thread)
  checked_out,  \* self.checked_out : con -> <<checked_out_time, data>>
  checked_in,   \* self.checked_in  : con -> time of last check-in
  connections,  \* self.connections : the LifoQueue's list, top at the end
  pc,           \* per thread: the statement of Get it is at
  con,          \* per thread: Get's local `con`
  timeout,      \* per thread: Get's argument `timeout`, until Acquired is
                \* called or the with-block that was yielded None ends
  data,         \* per thread: Get's argument `data`, until the with-block ends
  how,          \* per thread: how the with-block of a scope that held a
                \* connection ended, None before that
  err,          \* per thread: the exception Get itself raised, None if none
  spc,          \* the statement of Stats the monitoring thread is at
  snow,         \* Stats' local `now`
  s_in,         \* first list of Stats' result
  s_out,        \* second list of Stats' result
  placed,       \* history: the connections now in the buffer, in the order
                \* in which they were put there
  hist,         \* history: per connection, where its calls of Acquired and
                \* Released have taken it
  solo,         \* None, or who alone is running and the pool it started from
  vals,         \* Enum.__init__'s argument *vals
  instance_attrs, \* Enum.__init__'s local list
  attrs,        \* the Enum instance's attributes set by setattr: name -> value
  all,          \* self.__all__: None until line 53 has run
  epc,          \* where the Enum is: "none", "init", "raised", "built"
  ret,          \* None, or the accessor called last and what it returned
  got           \* history: what the get of line 74 did in the last step:
                \* "took" a connection at once, "woke" and took one, or "none"

pool == <<checked_out, checked_in, connections>>
ctor == <<size, made, built>>
locals == <<pc, con, timeout, data, how, err>>
history == <<placed, hist>>
stats == <<spc, snow, s_in, s_out>>
enum == <<vals, instance_attrs, attrs, all, epc, ret>>
vars == <<size, made, built, clock, lock, checked_out, checked_in, connections,
          pc, con, timeout, data, how, err, spc, snow, s_in, s_out,
          placed, hist, solo,
          vals, instance_attrs, attrs, all, epc, ret, got>>

\* ---- dict and queue primitives ------------------------------------------
Keys(d) == DOMAIN d

\* del d[k]  (the caller has checked k \in Keys(d); otherwise KeyError)
DictDel(d, k) == [x \in Keys(d) \ {k} |-> d[x]]

\* d[k] = v
DictSet(d, k, v) == [x \in Keys(d) \cup {k} |-> IF x = k THEN v ELSE d[x]]

\* d.items(): one (key, value) pair per key
Items(d) == {<<k, d[k]>> : k \in Keys(d)}

EmptyDict == [x \in {} |-> 0]

\* A put at the bottom of the stack.
LifoPutBottom(q, item) == <<item>> \o q

\* LifoQueue._put: self.queue.append(item)
LifoPut(q, item) == Append(q, item)

\* LifoQueue._get: self.queue.pop(), the item and the remaining list
LifoTop(q) == q[Len(q)]
LifoRest(q) == SubSeq(q, 1, Len(q) - 1)

\* Queue.full(): 0 < maxsize == qsize
QFull(q, maxsize) == maxsize > 0 /\ Len(q) = maxsize

\* The sequence q without item.
Without(q, item) == SelectSeq(q, LAMBDA x : x # item)

\* History of the buffer: item becomes the most recently placed of the
\* connections in it, and leaves the history when it is taken out.
Placed(q, item) == Append(Without(q, item), item)
Taken(q, item) == Without(q, item)

\* History of the calls of Acquired and Released for one connection, as the
\* state machine Available <-> CheckedOut: a connection is "Available" once
\* constructed, a call of Acquired takes it to "CheckedOut" and a call of
\* Released back; a call made in any other state is recorded as "bad".
AfterAcquired(h) == IF h = "Available" THEN "CheckedOut" ELSE "bad"
AfterReleased(h) == IF h = "CheckedOut" THEN "Available" ELSE "bad"

\* get_connection(): the factory's n-th call returns the fresh connection n
get_connection(n) == n

\* datetime.datetime.utcnow()
utcnow == clock

\* ---- __init__ -----------------------------------------------------------
Init ==
  /\ size \in Sizes
  /\ made = 0
  /\ built = FALSE
  /\ clock = 0
  /\ lock = None
  /\ checked_out = EmptyDict
  /\ checked_in = EmptyDict
  /\ connections = <<>>
  /\ pc = [t \in Threads |-> "idle"]
  /\ con = [t \in Threads |-> None]
  /\ timeout = [t \in Threads |-> None]
  /\ data = [t \in Threads |-> None]
  /\ how = [t \in Threads |-> None]
  /\ err = [t \in Threads |-> None]
  /\ spc = "idle"
  /\ snow = 0
  /\ s_in = {}
  /\ s_out = {}
  /\ placed = <<>>
  /\ hist = EmptyDict
  /\ solo = None
  /\ vals = <<>>
  /\ instance_attrs = <<>>
  /\ attrs = EmptyDict
  /\ all = None
  /\ epc = "none"
  /\ ret = None
  /\ got = "none"

\* The loop without line 30: the connection is not recorded as checked in.
CtorLoopNoCheckin ==
  /\ ~built
  /\ made < size
  /\ LET c == get_connection(made + 1) IN
       /\ made' = made + 1
       /\ connections' = LifoPut(connections, c)
       /\ placed' = Placed(placed, c)
       /\ hist' = DictSet(hist, c, "Available")
  /\ UNCHANGED <<size, built, clock, lock, checked_out, checked_in, locals,
                 stats>>

\* One iteration of `for i in range(size)`: lines 28-30.
CtorLoop ==
  /\ ~built
  /\ made < size
  /\ LET c == get_connection(made + 1) IN
       /\ made' = made + 1
       /\ connections' = LifoPut(connections, c)
       /\ checked_in' = DictSet(checked_in, c, utcnow)
       /\ placed' = Placed(placed, c)
       /\ hist' = DictSet(hist, c, "Available")
  /\ UNCHANGED <<size, built, clock, lock, checked_out, locals, stats>>

\* The loop is exhausted and __init__ returns the pool to its owner.
CtorReturn ==
  /\ ~built
  /\ made = size
  /\ built' = TRUE
  /\ UNCHANGED <<size, made, clock, lock, pool, locals, stats, history>>

\* Time passes.
Tick ==
  /\ clock < MaxClock
  /\ clock' = clock + 1
  /\ UNCHANGED <<ctor, lock, pool, locals, stats, history>>

\* ---- Get ----------------------------------------------------------------
\* A first-in first-out queue in place of the LifoQueue.
QueueGetFifo(t) ==
  /\ connections # <<>>
  /\ con' = [con EXCEPT ![t] = Some(Head(connections))]
  /\ connections' = Tail(connections)
  /\ placed' = Taken(placed, Head(connections))

\* A get that reads the top item and leaves it in the queue.
QueueGetPeek(t) ==
  /\ connections # <<>>
  /\ con' = [con EXCEPT ![t] = Some(LifoTop(connections))]
  /\ UNCHANGED <<connections, placed>>

\* self.connections.get(True, timeout) on a buffer that is not empty: the top
\* item is taken and bound to con.
QueueGet(t) ==
  /\ connections # <<>>
  /\ con' = [con EXCEPT ![t] = Some(LifoTop(connections))]
  /\ connections' = LifoRest(connections)
  /\ placed' = Taken(placed, LifoTop(connections))

\* A get that waits whatever the timeout.
MayWaitAlways(to) == TRUE

\* Queue.get(True, timeout) finds the buffer empty and waits: always when
\* timeout is None, and when it is a number while time remains.
MayWait(to) == to = None \/ Val(to) > 0

\* Line 74 inside `with self.lock`: a thread that blocks on the queue keeps
\* the lock.
Get74UnderLock(t) ==
  /\ built
  /\ pc[t] = "idle"
  /\ lock = None
  /\ \E to \in Timeouts, d \in Datas :
       /\ data' = [data EXCEPT ![t] = Some(d)]
       /\ timeout' = [timeout EXCEPT ![t] = to]
       /\ IF connections # <<>>
          THEN /\ QueueGet(t)
               /\ pc' = [pc EXCEPT ![t] = "lock79"]
               /\ UNCHANGED lock
          ELSE IF MayWait(to)
          THEN /\ pc' = [pc EXCEPT ![t] = "wait"]
               /\ lock' = Some(t)
               /\ UNCHANGED <<con, connections, placed>>
          ELSE /\ pc' = [pc EXCEPT ![t] = "body"]
               /\ con' = [con EXCEPT ![t] = None]
               /\ UNCHANGED <<lock, connections, placed>>
  /\ err' = [err EXCEPT ![t] = None]
  /\ how' = [how EXCEPT ![t] = None]
  /\ UNCHANGED <<ctor, clock, checked_out, checked_in, stats, hist>>

\* A thread enters `with pool.Get(timeout, data)` and runs line 74.  With an
\* item in the buffer it is taken at once (and line 78 sends the thread on to
\* line 79); with none the thread blocks on the queue's not_empty condition,
\* or, when timeout is 0, gets Queue.Empty: lines 75-76 set con = None and
\* line 81 yields it.
Get74(t) ==
  /\ built
  /\ pc[t] = "idle"
  /\ \E to \in Timeouts, d \in Datas :
       /\ data' = [data EXCEPT ![t] = Some(d)]
       /\ timeout' = [timeout EXCEPT ![t] = to]
       /\ IF connections # <<>>
          THEN /\ QueueGet(t)
               /\ pc' = [pc EXCEPT ![t] = "lock79"]
          ELSE IF MayWait(to)
          THEN /\ pc' = [pc EXCEPT ![t] = "wait"]
               /\ UNCHANGED <<con, connections, placed>>
          ELSE /\ pc' = [pc EXCEPT ![t] = "body"]
               /\ con' = [con EXCEPT ![t] = None]
               /\ UNCHANGED <<connections, placed>>
  /\ err' = [err EXCEPT ![t] = None]
  /\ how' = [how EXCEPT ![t] = None]
  /\ UNCHANGED <<ctor, clock, lock, checked_out, checked_in, stats, hist>>

\* A put that notifies nobody: the blocked thread is not woken.
GetWakeLost(t) ==
  /\ pc[t] = "wait"
  /\ FALSE
  /\ UNCHANGED vars

\* Line 74, a blocked thread is woken by a put and takes the top item.
GetWake(t) ==
  /\ pc[t] = "wait"
  /\ QueueGet(t)
  /\ pc' = [pc EXCEPT ![t] = "lock79"]
  /\ UNCHANGED <<ctor, clock, lock, checked_out, checked_in, timeout, data,
                 how, err, stats, hist>>

\* Line 74 without its second argument, get(True): the wait never expires.
GetExpireNoTimeout(t) ==
  /\ pc[t] = "wait"
  /\ timeout[t] # None
  /\ FALSE
  /\ UNCHANGED vars

\* Get without the except clause of line 75: Queue.Empty reaches the caller.
GetExpireRaises(t) ==
  /\ pc[t] = "wait"
  /\ timeout[t] # None
  /\ connections = <<>>
  /\ err' = [err EXCEPT ![t] = Some("Empty")]
  /\ pc' = [pc EXCEPT ![t] = "idle"]
  /\ timeout' = [timeout EXCEPT ![t] = None]
  /\ data' = [data EXCEPT ![t] = None]
  /\ UNCHANGED <<ctor, clock, lock, pool, con, how, stats, history>>

\* Lines 75-76: the wait of a numeric timeout expires on a buffer that is still
\* empty, Queue.Empty is caught, con = None, and line 81 yields it.
GetExpire(t) ==
  /\ pc[t] = "wait"
  /\ timeout[t] # None
  /\ connections = <<>>
  /\ con' = [con EXCEPT ![t] = None]
  /\ pc' = [pc EXCEPT ![t] = "body"]
  /\ UNCHANGED <<ctor, clock, lock, pool, timeout, data, how, err, stats,
                 history>>

\* Acquired without line 53: the connection stays in checked_in.
Acquired53NoDel(t) ==
  /\ pc[t] = "lock79"
  /\ lock = None
  /\ hist' = [hist EXCEPT ![Val(con[t])] = AfterAcquired(@)]
  /\ lock' = Some(t)
  /\ pc' = [pc EXCEPT ![t] = "l54"]
  /\ timeout' = [timeout EXCEPT ![t] = None]
  /\ UNCHANGED <<ctor, clock, pool, con, data, how, err, stats, placed>>

\* Line 79 takes self.lock, Acquired is called and line 53 runs:
\* del self.checked_in[con].  A KeyError leaves the with of line 79 (the lock
\* is released again) and goes to the finally clause, line 83.
Acquired53(t) ==
  /\ pc[t] = "lock79"
  /\ lock = None
  /\ hist' = [hist EXCEPT ![Val(con[t])] = AfterAcquired(@)]
  /\ IF Val(con[t]) \in Keys(checked_in)
     THEN /\ checked_in' = DictDel(checked_in, Val(con[t]))
          /\ lock' = Some(t)
          /\ pc' = [pc EXCEPT ![t] = "l54"]
          /\ UNCHANGED <<err, data>>
     ELSE /\ err' = [err EXCEPT ![t] = Some("KeyError")]
          /\ pc' = [pc EXCEPT ![t] = "lock84"]
          /\ data' = [data EXCEPT ![t] = None]
          /\ UNCHANGED <<checked_in, lock>>
  /\ timeout' = [timeout EXCEPT ![t] = None]
  /\ UNCHANGED <<ctor, clock, checked_out, connections, con, how, stats,
                 placed>>

\* Acquired without line 54: the checkout is not recorded.
Acquired54NoInsert(t) ==
  /\ pc[t] = "l54"
  /\ lock' = None
  /\ pc' = [pc EXCEPT ![t] = "body"]
  /\ UNCHANGED <<ctor, clock, pool, con, timeout, data, how, err, stats,
                 history>>

\* Line 54: self.checked_out[con] = (utcnow(), data); then the with of line 79
\* ends (the lock is released) and line 81 yields con.
Acquired54(t) ==
  /\ pc[t] = "l54"
  /\ checked_out' = DictSet(checked_out, Val(con[t]), <<utcnow, Val(data[t])>>)
  /\ lock' = None
  /\ pc' = [pc EXCEPT ![t] = "body"]
  /\ UNCHANGED <<ctor, clock, checked_in, connections, con, timeout, data,
                 how, err, stats, history>>

\* Get without try/finally: a with-block that raises skips the release.
BodyEndNoFinally(t) ==
  /\ pc[t] = "body"
  /\ \E h \in Hows :
       IF con[t] # None
       THEN /\ how' = [how EXCEPT ![t] = Some(h)]
            /\ pc' = [pc EXCEPT ![t] = IF h = "raise" THEN "idle" ELSE "lock84"]
       ELSE /\ how' = [how EXCEPT ![t] = None]
            /\ pc' = [pc EXCEPT ![t] = "idle"]
  /\ data' = [data EXCEPT ![t] = None]
  /\ timeout' = [timeout EXCEPT ![t] = None]
  /\ UNCHANGED <<ctor, clock, lock, pool, con, err, stats, history>>

\* The caller's with-block ends, normally, by a return or by raising; the
\* finally clause (line 82) runs in each case.  Line 83 skips the release when
\* con is None, and the scope is left.  Released never reads its second
\* argument (unused_data), so data is dropped here.
BodyEnd(t) ==
  /\ pc[t] = "body"
  /\ \E h \in Hows :
       IF con[t] # None
       THEN /\ how' = [how EXCEPT ![t] = Some(h)]
            /\ pc' = [pc EXCEPT ![t] = "lock84"]
       ELSE /\ how' = [how EXCEPT ![t] = None]
            /\ pc' = [pc EXCEPT ![t] = "idle"]
  /\ data' = [data EXCEPT ![t] = None]
  /\ timeout' = [timeout EXCEPT ![t] = None]
  /\ UNCHANGED <<ctor, clock, lock, pool, con, err, stats, history>>

\* Released without line 58: the checkout record stays.
Released58NoDel(t) ==
  /\ pc[t] = "lock84"
  /\ lock = None
  /\ hist' = [hist EXCEPT ![Val(con[t])] = AfterReleased(@)]
  /\ lock' = Some(t)
  /\ pc' = [pc EXCEPT ![t] = "l59"]
  /\ UNCHANGED <<ctor, clock, pool, con, timeout, data, how, err, stats,
                 placed>>

\* Line 84 takes self.lock, Released is called and line 58 runs:
\* del self.checked_out[con].  A KeyError leaves the with of line 84 (the lock
\* is released again) and Get.
Released58(t) ==
  /\ pc[t] = "lock84"
  /\ lock = None
  /\ hist' = [hist EXCEPT ![Val(con[t])] = AfterReleased(@)]
  /\ IF Val(con[t]) \in Keys(checked_out)
     THEN /\ checked_out' = DictDel(checked_out, Val(con[t]))
          /\ lock' = Some(t)
          /\ pc' = [pc EXCEPT ![t] = "l59"]
          /\ UNCHANGED <<err, con, how>>
     ELSE /\ err' = [err EXCEPT ![t] = Some("KeyError")]
          /\ pc' = [pc EXCEPT ![t] = "idle"]
          /\ con' = [con EXCEPT ![t] = None]
          /\ how' = [how EXCEPT ![t] = None]
          /\ UNCHANGED <<checked_out, lock>>
  /\ UNCHANGED <<ctor, clock, checked_in, connections, timeout, data, stats,
                 placed>>

\* Released without line 59: the check-in is not recorded.
Released59NoCheckin(t) ==
  /\ pc[t] = "l59"
  /\ pc' = [pc EXCEPT ![t] = "l60"]
  /\ UNCHANGED <<ctor, clock, lock, pool, con, timeout, data, how, err, stats,
                 history>>

\* Line 59: self.checked_in[con] = utcnow().
Released59(t) ==
  /\ pc[t] = "l59"
  /\ checked_in' = DictSet(checked_in, Val(con[t]), utcnow)
  /\ pc' = [pc EXCEPT ![t] = "l60"]
  /\ UNCHANGED <<ctor, clock, lock, checked_out, connections, con, timeout,
                 data, how, err, stats, history>>

\* Released without line 60: the connection is not put back.
Released60NoPut(t) ==
  /\ pc[t] = "l60"
  /\ pc' = [pc EXCEPT ![t] = "unlock85"]
  /\ UNCHANGED <<ctor, clock, lock, pool, con, timeout, data, how, err, stats,
                 history>>

\* Line 60: self.connections.put(con), which blocks while the queue is full.
Released60(t) ==
  /\ pc[t] = "l60"
  /\ ~QFull(connections, size)
  /\ connections' = LifoPut(connections, Val(con[t]))
  /\ placed' = Placed(placed, Val(con[t]))
  /\ pc' = [pc EXCEPT ![t] = "unlock85"]
  /\ UNCHANGED <<ctor, clock, lock, checked_out, checked_in, con, timeout,
                 data, how, err, stats, hist>>

\* Released has returned: the with of line 84 ends (the lock is released), the
\* generator finishes and the scope is left, in the way the with-block ended
\* (how stays until the thread's next Get).
Unlock85(t) ==
  /\ pc[t] = "unlock85"
  /\ lock' = None
  /\ pc' = [pc EXCEPT ![t] = "idle"]
  /\ con' = [con EXCEPT ![t] = None]
  /\ UNCHANGED <<ctor, clock, pool, timeout, data, how, err, stats, history>>

\* ---- Stats --------------------------------------------------------------
\* [(con, now - started) for (con, started) in self.checked_in.items()]
StatsIn(d, now) == {<<i[1], now - i[2]>> : i \in Items(d)}

\* [(con, (now - started, data)) for (con, (started, data)) in ...items()]
StatsOut(d, now) == {<<i[1], <<now - i[2][1], i[2][2]>>>> : i \in Items(d)}

\* Line 43: now = utcnow().
Stats43 ==
  /\ built
  /\ spc \in {"idle", "done"}
  /\ snow' = utcnow
  /\ s_in' = {}
  /\ s_out' = {}
  /\ spc' = "l45"
  /\ UNCHANGED <<ctor, clock, lock, pool, locals, history>>

\* Line 45: the first list, from one reading of self.checked_in.
Stats45 ==
  /\ spc = "l45"
  /\ s_in' = StatsIn(checked_in, snow)
  /\ spc' = "l46"
  /\ UNCHANGED <<ctor, clock, lock, pool, locals, snow, s_out, history>>

\* Lines 46-47: the second list, from one reading of self.checked_out, and the
\* return of both.
Stats46 ==
  /\ spc = "l46"
  /\ s_out' = StatsOut(checked_out, snow)
  /\ spc' = "done"
  /\ UNCHANGED <<ctor, clock, lock, pool, locals, snow, s_in, history>>

\* ---- the program --------------------------------------------------------
Worker(t) ==
  \/ Get74(t)
  \/ GetWake(t)
  \/ GetExpire(t)
  \/ Acquired53(t)
  \/ Acquired54(t)
  \/ BodyEnd(t)
  \/ Released58(t)
  \/ Released59(t)
  \/ Released60(t)
  \/ Unlock85(t)

Monitor == Stats43 \/ Stats45 \/ Stats46

\* The pool and the threads using it through Get.
Next ==
  /\ \/ CtorLoop
     \/ CtorReturn
     \/ Tick
     \/ \E t \in Threads : Worker(t)
  /\ UNCHANGED <<solo, enum, got>>

Spec == Init /\ [][Next]_vars

\* The same with a monitoring thread calling Stats at any time.
NextStats ==
  \/ Next
  \/ Monitor /\ UNCHANGED <<solo, enum, got>>

SpecStats == Init /\ [][NextStats]_vars

\* ---- one caller at a time -----------------------------------------------
\* The monitoring thread is the process after the worker threads.
MonitorId == NumThreads + 1

\* No thread is inside the pool's code: each is outside Get or in its
\* with-block.
Quiet == \A t \in Threads : pc[t] \in {"idle", "body"}

\* From a quiet state on, process p alone runs: a thread about to call Get, or
\* the monitoring thread about to call Stats.  The pool as it is now is kept.
SoloBegin(p) ==
  /\ built
  /\ solo = None
  /\ Quiet
  /\ p \in Threads => pc[p] = "idle"
  /\ solo' = <<p, Keys(checked_in), checked_out, connections>>
  /\ UNCHANGED <<ctor, clock, lock, pool, locals, stats, history, enum,
                 got>>

SoloStep ==
  /\ solo # None
  /\ \/ Tick
     \/ \E t \in Threads : solo[1] = t /\ Worker(t)
     \/ solo[1] = MonitorId /\ Monitor
  /\ UNCHANGED <<solo, enum, got>>

NextSolo ==
  \/ Next /\ solo = None
  \/ \E p \in Threads \cup {MonitorId} : SoloBegin(p)
  \/ SoloStep

SpecSolo == Init /\ [][NextSolo]_vars

\* ---- scheduling ---------------------------------------------------------
\* The statements of Get that belong to the pool: once a thread is inside
\* them, the scheduler runs it on whenever it can take a step.  A blocked
\* get(True, timeout) returns when an item is there or, with a numeric
\* timeout, when the wait has expired; a thread waiting for self.lock or at a
\* dict statement runs when the lock is free.  The caller's code is not
\* included: a thread need not call Get again (Get74), and the with-block of
\* a scope may never end (BodyEnd).
PoolStep(t) ==
  \/ GetWake(t)
  \/ GetExpire(t)
  \/ Acquired53(t)
  \/ Acquired54(t)
  \/ Released58(t)
  \/ Released59(t)
  \/ Released60(t)
  \/ Unlock85(t)

\* The pool and its threads without the passing of time: the clock is read
\* for the time stamps alone, and when a timed wait ends is the scheduler's
\* choice (GetExpire).
\* History of the gets of line 74 in the step being taken: a thread that
\* goes on to line 79 has taken a connection, at once or after blocking.
Served ==
  got' = IF \E t \in Threads : pc[t] = "wait" /\ pc'[t] = "lock79"
           THEN "woke"
         ELSE IF \E t \in Threads : pc[t] = "idle" /\ pc'[t] = "lock79"
           THEN "took"
         ELSE "none"

NextLive ==
  /\ \/ CtorLoop
     \/ CtorReturn
     \/ \E t \in Threads : Worker(t)
  /\ Served
  /\ UNCHANGED <<solo, enum>>

SpecLive ==
  /\ Init
  /\ [][NextLive]_vars
  /\ \A t \in Threads :
       WF_vars(PoolStep(t) /\ Served /\ UNCHANGED <<solo, enum>>)

\* ---- Acquired and Released called from outside Get -----------------------
\* Acquired and Released are public methods: any code that has the pool can
\* call them with any object as con.  ConnIds are the objects tried: the
\* pool's own connections and, when size < MaxSize, foreign ones.
ConnIds == 1..MaxSize

\* A call of pool.Acquired(c, d): the arguments are bound.
CallAcquired(t) ==
  /\ built
  /\ pc[t] = "idle"
  /\ \E c \in ConnIds, d \in Datas :
       /\ con' = [con EXCEPT ![t] = Some(c)]
       /\ data' = [data EXCEPT ![t] = Some(d)]
  /\ pc' = [pc EXCEPT ![t] = "d53"]
  /\ err' = [err EXCEPT ![t] = None]
  /\ how' = [how EXCEPT ![t] = None]
  /\ UNCHANGED <<ctor, clock, lock, pool, timeout, stats, history>>

\* A call of pool.Released(c, d); unused_data is never read.
CallReleased(t) ==
  /\ built
  /\ pc[t] = "idle"
  /\ \E c \in ConnIds : con' = [con EXCEPT ![t] = Some(c)]
  /\ pc' = [pc EXCEPT ![t] = "d58"]
  /\ err' = [err EXCEPT ![t] = None]
  /\ how' = [how EXCEPT ![t] = None]
  /\ UNCHANGED <<ctor, clock, lock, pool, timeout, data, stats, history>>

\* The history of a call for connection c, which may be a foreign object.
CalledAcquired(h, c) ==
  IF c \in Keys(h) THEN [h EXCEPT ![c] = AfterAcquired(@)] ELSE h
CalledReleased(h, c) ==
  IF c \in Keys(h) THEN [h EXCEPT ![c] = AfterReleased(@)] ELSE h

\* Line 53 of a direct call: del self.checked_in[con]; a KeyError goes to the
\* caller.
DirectAcquired53(t) ==
  /\ pc[t] = "d53"
  /\ hist' = CalledAcquired(hist, Val(con[t]))
  /\ IF Val(con[t]) \in Keys(checked_in)
     THEN /\ checked_in' = DictDel(checked_in, Val(con[t]))
          /\ pc' = [pc EXCEPT ![t] = "d54"]
          /\ UNCHANGED <<err, con, data>>
     ELSE /\ err' = [err EXCEPT ![t] = Some("KeyError")]
          /\ pc' = [pc EXCEPT ![t] = "idle"]
          /\ con' = [con EXCEPT ![t] = None]
          /\ data' = [data EXCEPT ![t] = None]
          /\ UNCHANGED checked_in
  /\ UNCHANGED <<ctor, clock, lock, checked_out, connections, timeout, how,
                 stats, placed>>

\* Line 54 of a direct call, and the return.
DirectAcquired54(t) ==
  /\ pc[t] = "d54"
  /\ checked_out' = DictSet(checked_out, Val(con[t]), <<utcnow, Val(data[t])>>)
  /\ pc' = [pc EXCEPT ![t] = "idle"]
  /\ con' = [con EXCEPT ![t] = None]
  /\ data' = [data EXCEPT ![t] = None]
  /\ UNCHANGED <<ctor, clock, lock, checked_in, connections, timeout, how,
                 err, stats, history>>

\* Released with lines 58 and 59 in the other order: the check-in time is
\* written before the del can fail.
DirectReleased58InsertFirst(t) ==
  /\ pc[t] = "d58"
  /\ hist' = CalledReleased(hist, Val(con[t]))
  /\ checked_in' = DictSet(checked_in, Val(con[t]), utcnow)
  /\ IF Val(con[t]) \in Keys(checked_out)
     THEN /\ checked_out' = DictDel(checked_out, Val(con[t]))
          /\ pc' = [pc EXCEPT ![t] = "d60"]
          /\ UNCHANGED <<err, con>>
     ELSE /\ err' = [err EXCEPT ![t] = Some("KeyError")]
          /\ pc' = [pc EXCEPT ![t] = "idle"]
          /\ con' = [con EXCEPT ![t] = None]
          /\ UNCHANGED checked_out
  /\ UNCHANGED <<ctor, clock, lock, connections, timeout, data, how,
                 stats, placed>>

\* Line 58 of a direct call: del self.checked_out[con]; a KeyError goes to the
\* caller.
DirectReleased58(t) ==
  /\ pc[t] = "d58"
  /\ hist' = CalledReleased(hist, Val(con[t]))
  /\ IF Val(con[t]) \in Keys(checked_out)
     THEN /\ checked_out' = DictDel(checked_out, Val(con[t]))
          /\ pc' = [pc EXCEPT ![t] = "d59"]
          /\ UNCHANGED <<err, con>>
     ELSE /\ err' = [err EXCEPT ![t] = Some("KeyError")]
          /\ pc' = [pc EXCEPT ![t] = "idle"]
          /\ con' = [con EXCEPT ![t] = None]
          /\ UNCHANGED checked_out
  /\ UNCHANGED <<ctor, clock, lock, checked_in, connections, timeout, data,
                 how, stats, placed>>

\* Line 59 of a direct call.
DirectReleased59(t) ==
  /\ pc[t] = "d59"
  /\ checked_in' = DictSet(checked_in, Val(con[t]), utcnow)
  /\ pc' = [pc EXCEPT ![t] = "d60"]
  /\ UNCHANGED <<ctor, clock, lock, checked_out, connections, con, timeout,
                 data, how, err, stats, history>>

\* Line 60 of a direct call, and the return; the put waits while the buffer
\* is full.
DirectReleased60(t) ==
  /\ pc[t] = "d60"
  /\ ~QFull(connections, size)
  /\ connections' = LifoPut(connections, Val(con[t]))
  /\ placed' = Placed(placed, Val(con[t]))
  /\ pc' = [pc EXCEPT ![t] = "idle"]
  /\ con' = [con EXCEPT ![t] = None]
  /\ UNCHANGED <<ctor, clock, lock, checked_out, checked_in, timeout, data,
                 how, err, stats, hist>>

Direct(t) ==
  \/ CallAcquired(t)
  \/ CallReleased(t)
  \/ DirectAcquired53(t)
  \/ DirectAcquired54(t)
  \/ DirectReleased58(t)
  \/ DirectReleased59(t)
  \/ DirectReleased60(t)

\* The pool is constructed and then driven by the direct calls of one
\* thread alone.
NextDirect ==
  /\ \/ CtorLoop
     \/ CtorReturn
     \/ Tick
     \/ Direct(1)
  /\ UNCHANGED <<solo, enum, got>>

SpecDirect == Init /\ [][NextDirect]_vars

\* ---- enums.py: Enum -----------------------------------------------------
\* A str is the sequence of its pieces; a piece is one of the characters
\* " ", "-", "_" or a run of other characters.  '' is the empty sequence.
MaxEntries == 2

\* The attribute names tried, among them '' and the name of a method.
Names == { <<>>, <<"A">>, <<"B", " ", "C">>, <<"B", "-", "C">>,
           <<"B", "_", "C">>, <<"EnumAttrs">> }

\* The values tried in (attr, value) tuples.
Values == { <<>>, <<"x">>, <<"x", "-", "y">> }

\* An entry of *vals: a plain str <<attr>> or a tuple <<attr, value>>.
Entries == {<<n>> : n \in Names} \cup {<<n, v>> : n \in Names, v \in Values}
EntrySeqs == UNION {[1..k -> Entries] : k \in 0..MaxEntries}

\* isinstance(attr, tuple)
IsTuple(e) == Len(e) = 2

\* string.maketrans(' -', '__'): the table, character by character
maketrans(c) == IF c = " " \/ c = "-" THEN "_" ELSE c

\* attr.translate(table)
translate(str) == [i \in 1..Len(str) |-> maketrans(str[i])]

\* What class Enum itself defines; getattr finds these when the instance has
\* no attribute of the name, and a bound method is true.
ClassAttrs == { <<"__init__">>, <<"EnumAttrs">>, <<"EnumValues">>,
                <<"EnumItems">> }

\* bool(v) of a str
Truthy(v) == v # <<>>

\* Line 48: the truth value of getattr(self, safe_attr, None).
GetattrTrue(name) ==
  IF name \in Keys(attrs) THEN Truthy(attrs[name]) ELSE name \in ClassAttrs

\* getattr(self, attr) of an attribute that was set by the constructor
getattr(name) == attrs[name]

\* Enum(*vals) is called: line 41.
InitEnum ==
  /\ size = 1
  /\ made = 0
  /\ built = FALSE
  /\ clock = 0
  /\ lock = None
  /\ checked_out = EmptyDict
  /\ checked_in = EmptyDict
  /\ connections = <<>>
  /\ pc = [t \in Threads |-> "idle"]
  /\ con = [t \in Threads |-> None]
  /\ timeout = [t \in Threads |-> None]
  /\ data = [t \in Threads |-> None]
  /\ how = [t \in Threads |-> None]
  /\ err = [t \in Threads |-> None]
  /\ spc = "idle"
  /\ snow = 0
  /\ s_in = {}
  /\ s_out = {}
  /\ placed = <<>>
  /\ hist = EmptyDict
  /\ solo = None
  /\ vals \in EntrySeqs
  /\ instance_attrs = <<>>
  /\ attrs = EmptyDict
  /\ all = None
  /\ epc = "init"
  /\ ret = None
  /\ got = "none"

\* One iteration of `for attr in vals`, lines 42-52; line 49 raises KeyError
\* out of the constructor.
EnumLoop ==
  /\ epc = "init"
  /\ Len(instance_attrs) < Len(vals)
  /\ LET e == vals[Len(instance_attrs) + 1]
         attr == e[1]
         val == IF IsTuple(e) THEN e[2] ELSE e[1]
         safe_attr == translate(attr)
     IN IF GetattrTrue(safe_attr)
        THEN /\ epc' = "raised"
             /\ UNCHANGED <<instance_attrs, attrs>>
        ELSE /\ instance_attrs' = Append(instance_attrs, safe_attr)
             /\ attrs' = DictSet(attrs, safe_attr, val)
             /\ UNCHANGED epc
  /\ UNCHANGED <<vals, all, ret>>

\* Line 53: self.__all__ = instance_attrs, and the constructor returns.
EnumReturn ==
  /\ epc = "init"
  /\ Len(instance_attrs) = Len(vals)
  /\ all' = Some(instance_attrs)
  /\ epc' = "built"
  /\ UNCHANGED <<vals, instance_attrs, attrs, ret>>

\* Lines 55-57.
EnumAttrs == Val(all)

\* Lines 59-61.
EnumValues == [i \in 1..Len(Val(all)) |-> getattr(Val(all)[i])]

\* Lines 63-65.
EnumItems ==
  [i \in 1..Len(Val(all)) |-> <<Val(all)[i], getattr(Val(all)[i])>>]

\* An accessor is called on the Enum and returns.
CallEnumAttrs ==
  /\ epc = "built"
  /\ ret' = <<"EnumAttrs", EnumAttrs>>
  /\ UNCHANGED <<vals, instance_attrs, attrs, all, epc>>

CallEnumValues ==
  /\ epc = "built"
  /\ ret' = <<"EnumValues", EnumValues>>
  /\ UNCHANGED <<vals, instance_attrs, attrs, all, epc>>

CallEnumItems ==
  /\ epc = "built"
  /\ ret' = <<"EnumItems", EnumItems>>
  /\ UNCHANGED <<vals, instance_attrs, attrs, all, epc>>

NextEnum ==
  /\ \/ EnumLoop
     \/ EnumReturn
     \/ CallEnumAttrs
     \/ CallEnumValues
     \/ CallEnumItems
  /\ UNCHANGED <<ctor, clock, lock, pool, locals, stats, history, solo,
                 got>>

SpecEnum == InitEnum /\ [][NextEnum]_vars

\* ---- the claims ---------------------------------------------------------
\* The connections the factory has produced.
Conns == {get_connection(i) : i \in 1..made}

InSeq(q, c) == \E i \in 1..Len(q) : q[i] = c

\* C1 as stated: in every reachable state of a constructed pool each
\* connection is a key of exactly one of checked_in and checked_out, and the
\* two maps hold size keys together.
C1_ExactlyOneMapAlways ==
  built =>
    /\ \A c \in Conns : (c \in Keys(checked_in)) # (c \in Keys(checked_out))
    /\ Cardinality(Keys(checked_in)) + Cardinality(Keys(checked_out)) = size

\* C1 amended: no connection is ever a key of both maps; a connection is a key
\* of neither only while the thread holding the lock is between the two
\* statements of Acquired (lines 53, 54) or of Released (lines 58, 59) for it;
\* so whenever the lock is free each connection is a key of exactly one map
\* and the two maps hold size keys, and otherwise size or size - 1.
C1_ExactlyOneMapOutsideLock ==
  built =>
    LET in == Keys(checked_in)
        out == Keys(checked_out)
        n == Cardinality(in) + Cardinality(out)
    IN /\ in \cap out = {}
       /\ in \cup out \subseteq Conns
       /\ \A c \in Conns \ (in \cup out) :
            \E t \in Threads : /\ lock = Some(t)
                               /\ con[t] = Some(c)
                               /\ pc[t] \in {"l54", "l59"}
       /\ lock = None => in \cup out = Conns /\ n = size
       /\ n \in {size - 1, size}

\* C1 witness: one connection is checked out to a scope while another thread,
\* holding the lock inside Released, has its connection in neither map.
C1_Witness ==
  \E t, u \in Threads :
    /\ pc[t] = "l59" /\ lock = Some(t)
    /\ Val(con[t]) \notin Keys(checked_in) \cup Keys(checked_out)
    /\ pc[u] = "body" /\ con[u] # None
    /\ Val(con[u]) \in Keys(checked_out)

\* C2 as stated: when a scope that obtained a connection is left, however its
\* with-block ended, the connection is a key of checked_in, not a key of
\* checked_out, and in the free buffer.
C2_BackInBufferAtExit ==
  [][\A t \in Threads :
       (pc[t] # "idle" /\ pc'[t] = "idle" /\ con[t] # None) =>
         /\ Val(con[t]) \in Keys(checked_in')
         /\ Val(con[t]) \notin Keys(checked_out')
         /\ InSeq(connections', Val(con[t]))]_vars

\* C2 amended: when a scope that obtained a connection is left (the lock of
\* line 84 is released), however its with-block ended, the connection is a key
\* of checked_in, not a key of checked_out, and it has been put back: it is in
\* the free buffer, or another thread's Get has already taken it from there
\* and waits for the lock at line 79.
C2_ReleasedAtExit ==
  [][\A t \in Threads :
       (pc[t] # "idle" /\ pc'[t] = "idle" /\ con[t] # None) =>
         /\ how'[t] # None
         /\ Val(con[t]) \in Keys(checked_in')
         /\ Val(con[t]) \notin Keys(checked_out')
         /\ \/ InSeq(connections', Val(con[t]))
            \/ \E u \in Threads \ {t} :
                 con'[u] = con[t] /\ pc'[u] = "lock79"]_vars

\* C2 witness: a thread has left a scope by raising, and the only connection of
\* the pool, which that scope held, is checked in and in the buffer.
C2_Witness ==
  \E t \in Threads :
    /\ size = 1
    /\ pc[t] = "idle" /\ how[t] = Some("raise")
    /\ Keys(checked_in) = Conns /\ checked_out = EmptyDict
    /\ connections = <<get_connection(1)>>

\* C3 as stated: what Stats returns is a snapshot of one instant: each
\* connection is in exactly one of the two lists, whose lengths sum to size.
C3_StatsSnapshot ==
  spc = "done" =>
    LET ins == {e[1] : e \in s_in}
        outs == {e[1] : e \in s_out}
    IN /\ \A c \in Conns : (c \in ins) # (c \in outs)
       /\ Cardinality(s_in) + Cardinality(s_out) = size

\* C4: a Get call with a finite timeout that finds the buffer empty for its
\* whole wait yields None with no exception, and no step of that call changes
\* checked_in, checked_out or the buffer, from the call to the exit of the
\* scope; Released is not called for it (the call history stays, the lock is
\* not taken).
C4_TimeoutChangesNothing ==
  [][\A t \in Threads :
       /\ (pc[t] = "idle" /\ pc'[t] \in {"wait", "body"}) =>
            /\ UNCHANGED <<pool, hist, lock>>
            /\ pc'[t] = "body" => con'[t] = None /\ err'[t] = None
       /\ (pc[t] = "wait" /\ pc'[t] # "wait" /\ connections = <<>>) =>
            /\ timeout[t] # None
            /\ pc'[t] = "body" /\ con'[t] = None /\ err'[t] = None
            /\ UNCHANGED <<pool, hist, lock>>
       /\ (pc[t] = "body" /\ con[t] = None /\ pc'[t] # "body") =>
            /\ pc'[t] = "idle" /\ err'[t] = None
            /\ UNCHANGED <<pool, hist, lock>>]_vars

\* C4 witness: a Get with a positive timeout has waited on the empty buffer,
\* while the connections are checked out to others, and was yielded None.
C4_Witness ==
  \E t \in Threads :
    /\ pc[t] = "body" /\ con[t] = None /\ timeout[t] = Some(1)
    /\ connections = <<>>
    /\ Keys(checked_out) = Conns

\* C5: every Get that obtains a connection obtains the one placed in the
\* buffer most recently among those in it: after A and then B were put back,
\* B comes out before A; and from a buffer as the constructor leaves it the
\* connection constructed last comes out.
C5_Lifo ==
  [][\A t \in Threads :
       (con[t] = None /\ con'[t] # None) =>
         /\ placed # <<>>
         /\ Val(con'[t]) = placed[Len(placed)]
         /\ InSeq(connections, Val(con'[t]))
         /\ ~InSeq(connections', Val(con'[t]))
         /\ connections = [i \in 1..size |-> get_connection(i)] =>
              Val(con'[t]) = get_connection(size)]_vars

\* C5 witness: connection 2 was put back before connection 1 (the constructor
\* leaves them the other way round), and a Get has then obtained connection 1.
C5_Witness ==
  \E t \in Threads :
    /\ size = 2
    /\ pc[t] = "lock79" /\ con[t] = Some(1)
    /\ connections = <<2>>
    /\ hist[1] = "Available" /\ hist[2] = "Available"

\* C6: a Get with timeout None never yields None: it stays blocked while the
\* buffer is empty and goes on only with the top connection taken from the
\* buffer; a Get with timeout 0 never waits: it takes the top connection of a
\* buffer that is not empty and is yielded None otherwise.
C6_TimeoutNoneAndZero ==
  [][\A t \in Threads :
       /\ (pc'[t] = "body" /\ con'[t] = None) => timeout'[t] # None
       /\ pc'[t] = "wait" => timeout'[t] # Some(0)
       /\ (pc[t] = "wait" /\ timeout[t] = None /\ connections = <<>>) =>
            pc'[t] = "wait"
       /\ (pc[t] \in {"idle", "wait"} /\ pc'[t] = "lock79") =>
            /\ connections # <<>>
            /\ con'[t] = Some(LifoTop(connections))
            /\ connections' = LifoRest(connections)
       /\ (pc[t] = "idle" /\ pc'[t] # "idle" /\ timeout'[t] = Some(0)) =>
            IF connections # <<>>
            THEN pc'[t] = "lock79" /\ con'[t] = Some(LifoTop(connections))
            ELSE pc'[t] = "body" /\ con'[t] = None]_vars

\* C6 witness: a Get with timeout 0 has taken the last connection from the
\* buffer at once, and a Get with timeout None is blocked on the empty buffer.
C6_Witness ==
  \E t, u \in Threads :
    /\ connections = <<>>
    /\ pc[t] = "lock79" /\ timeout[t] = Some(0) /\ con[t] # None
    /\ pc[u] = "wait" /\ timeout[u] = None

\* C7: when the constructor returns, the factory has been called exactly size
\* times (and is never called again), checked_in has exactly the size
\* connections it returned as keys, checked_out is empty and the buffer holds
\* each of them exactly once.
C7_Constructed ==
  [][/\ built' => made' = size
     /\ (~built /\ built') =>
          LET made_conns == {get_connection(i) : i \in 1..size} IN
            /\ Cardinality(made_conns) = size
            /\ Keys(checked_in') = made_conns
            /\ checked_out' = EmptyDict
            /\ Len(connections') = size
            /\ \A c \in made_conns :
                 Cardinality({i \in 1..size : connections'[i] = c}) = 1]_vars

\* C7 witness: a pool of size 2 as the constructor returned it.
C7_Witness ==
  /\ built /\ size = 2 /\ made = 2
  /\ Keys(checked_in) = {1, 2} /\ checked_out = EmptyDict
  /\ connections = <<1, 2>>
  /\ \A t \in Threads : pc[t] = "idle" /\ how[t] = None

\* C8: from a state in which no other thread is inside the pool's code and
\* none takes a step, a Get that obtains a connection followed by the exit of
\* its scope leaves checked_in with the same keys, checked_out unchanged and
\* the buffer with the same connections in the same order.
C8_RoundTrip ==
  [][\A t \in Threads :
       (solo # None /\ solo[1] = t /\ pc[t] = "unlock85" /\ pc'[t] = "idle") =>
         /\ Keys(checked_in') = solo[2]
         /\ checked_out' = solo[3]
         /\ connections' = solo[4]]_vars

\* C8 witness: running alone beside a thread that holds a connection in its
\* with-block, a thread has obtained the other connection, Released it at a
\* later time, and is about to leave its scope.
C8_Witness ==
  \E t, u \in Threads :
    /\ solo # None /\ solo[1] = t
    /\ pc[t] = "unlock85" /\ con[t] # None
    /\ pc[u] = "body" /\ con[u] # None
    /\ clock > 0 /\ checked_in[Val(con[t])] = clock
    /\ connections = solo[4]

\* The threads whose with-block holds a connection.
Holders == {t \in Threads : pc[t] = "body" /\ con[t] # None}

\* C9: while a connection is yielded to a scope, checked_out maps it to the
\* data of that Get call, and a Stats call made then reports that data for
\* it (once); on a pool of size 2 with one scope open, with data "job1",
\* Stats returns one checked-in entry and one checked-out entry, annotated
\* "job1", and with no scope open two checked-in entries and no checked-out
\* one.  (The Stats call runs with no step of another thread in between.)
C9_Annotation ==
  /\ \A t \in Holders :
       /\ Val(con[t]) \in Keys(checked_out)
       /\ checked_out[Val(con[t])][2] = Val(data[t])
  /\ (solo # None /\ solo[1] = MonitorId /\ spc = "done") =>
       /\ \A t \in Holders :
            /\ Cardinality({e \in s_out : e[1] = Val(con[t])}) = 1
            /\ \A e \in s_out : e[1] = Val(con[t]) => e[2][2] = Val(data[t])
       /\ (size = 2 /\ \E t \in Threads :
                         Holders = {t} /\ data[t] = Some("job1")) =>
            /\ Cardinality(s_in) = 1
            /\ Cardinality(s_out) = 1
            /\ \A e \in s_out : e[2][2] = "job1"
       /\ (size = 2 /\ Holders = {}) =>
            /\ Cardinality(s_in) = 2
            /\ s_out = {}

\* C9 witness: Stats has returned on a pool of size 2 while one scope, opened
\* with data "job1", holds connection 2.
C9_Witness ==
  \E t \in Threads :
    /\ size = 2 /\ solo # None /\ solo[1] = MonitorId /\ spc = "done"
    /\ Holders = {t} /\ data[t] = Some("job1") /\ con[t] = Some(2)
    /\ {e[1] : e \in s_in} = {1}
    /\ \E e \in s_out : e[1] = 2 /\ e[2][2] = "job1"

\* C10: for each connection the calls of Acquired and Released alternate,
\* starting with Acquired (the history never goes "bad"); a connection held
\* in a with-block has been Acquired and not Released; when its scope is left
\* it has been Released, once; and the maps change in no other way: whenever
\* the lock is free, checked_out holds the connections last Acquired and
\* checked_in those never Acquired or last Released.
C10_Alternation ==
  [][/\ \A c \in DOMAIN hist' : hist'[c] # "bad"
     /\ \A t \in Threads :
          /\ (pc'[t] = "body" /\ con'[t] # None) =>
               hist'[Val(con'[t])] = "CheckedOut"
          /\ (pc[t] # "idle" /\ pc'[t] = "idle" /\ con[t] # None) =>
               /\ pc[t] = "unlock85"
               /\ hist'[Val(con[t])] = "Available"
     /\ lock' = None =>
          /\ Keys(checked_out') = {c \in DOMAIN hist' : hist'[c] = "CheckedOut"}
          /\ Keys(checked_in') = {c \in DOMAIN hist' : hist'[c] = "Available"}
    ]_vars

\* C10 witness: a connection is checked out for the second time while another
\* one, released before, is available.
C10_Witness ==
  \E t \in Threads :
    /\ size = 2 /\ lock = None
    /\ pc[t] = "body" /\ con[t] = Some(1)
    /\ hist[1] = "CheckedOut" /\ hist[2] = "Available"
    /\ connections = <<2>>

\* C11: a call of Acquired(con, data) for a con that is not a key of
\* checked_in, and a call of Released(con, data) for a con that is not a key
\* of checked_out, ends with KeyError and leaves checked_in, checked_out and
\* the buffer as they were.
C11_KeyErrorNoChange ==
  [][\A t \in Threads :
       /\ ( /\ pc[t] = "d53"
            /\ pc'[t] # "d53"
            /\ Val(con[t]) \notin Keys(checked_in) )
          => err'[t] = Some("KeyError") /\ UNCHANGED pool
       /\ ( /\ pc[t] = "d58"
            /\ pc'[t] # "d58"
            /\ Val(con[t]) \notin Keys(checked_out) )
          => err'[t] = Some("KeyError") /\ UNCHANGED pool]_vars

\* C11 witness: a direct call has failed with KeyError on a pool of size 2
\* that has one connection checked out and the other one checked in.
C11_Witness ==
  /\ built
  /\ size = 2
  /\ \E t \in Threads : pc[t] = "idle" /\ err[t] = Some("KeyError")
  /\ Cardinality(Keys(checked_out)) = 1
  /\ Cardinality(Keys(checked_in)) = 1
  /\ Keys(checked_in) # Keys(checked_out)

\* A scope holds the pool's connection: it has been yielded to thread u and
\* the with-block has not ended.
Held(u) == pc[u] = "body" /\ con[u] # None

\* C12: with a pool of size 1 whose connection is held by a scope, a Get with
\* a numeric timeout that is waiting on the buffer comes to yield None, unless
\* the holder's with-block ends; it stays blocked for ever in no run, and it
\* is never yielded the connection while the holder has it.
C12_TimedGetYieldsNone ==
  \A t \in Threads :
    ( /\ size = 1
      /\ pc[t] = "wait"
      /\ timeout[t] # None
      /\ \E u \in Threads : Held(u) )
    ~> ( \/ pc[t] = "body" /\ con[t] = None
         \/ ~ \E u \in Threads : Held(u) )

\* C12 witness: in a pool of size 1 a Get with a positive timeout has waited
\* and has been yielded None while another scope still holds the connection.
C12_Witness ==
  /\ size = 1
  /\ \E t, u \in Threads :
       /\ Held(u)
       /\ pc[t] = "body"
       /\ con[t] = None
       /\ timeout[t] = Some(1)

\* C13: for every Enum that has been built, EnumAttrs() returns the entries'
\* attribute names with spaces and dashes replaced by underscores,
\* EnumValues() the entries' values unchanged (a plain entry's value is the
\* entry itself) and EnumItems() the pairs of both, each in the order of the
\* constructor's arguments.
C13_AccessorsInOrder ==
  (epc = "built" /\ ret # None) =>
    LET n == Len(vals)
        attr(i) == translate(vals[i][1])
        val(i) == IF IsTuple(vals[i]) THEN vals[i][2] ELSE vals[i][1]
    IN /\ Len(ret[2]) = n
       /\ ret[1] = "EnumAttrs" => \A i \in 1..n : ret[2][i] = attr(i)
       /\ ret[1] = "EnumValues" => \A i \in 1..n : ret[2][i] = val(i)
       /\ ret[1] = "EnumItems" =>
            \A i \in 1..n : ret[2][i] = <<attr(i), val(i)>>

\* Thread t has a connection in hand: it has taken it from the buffer (line
\* 74) and Released has not yet put it back (line 60).
InHand(t) ==
  /\ con[t] # None
  /\ pc[t] \in {"lock79", "l54", "body", "lock84", "l59", "l60"}

\* C14: in every state of a constructed pool each of the size connections is
\* either once in the buffer or in the hand of exactly one thread, and nothing
\* else is in the buffer; so no connection is yielded to two scopes at a time
\* and none is in the buffer while a scope holds it.
C14_NoDuplicateNoDrop ==
  built =>
    LET InBuffer(c) == {i \in 1..Len(connections) : connections[i] = c}
        InHands(c) == {t \in Threads : InHand(t) /\ con[t] = Some(c)}
    IN /\ Cardinality(Conns) = size
       /\ \A i \in 1..Len(connections) : connections[i] \in Conns
       /\ \A c \in Conns :
            Cardinality(InBuffer(c)) + Cardinality(InHands(c)) = 1
       /\ \A t, u \in Threads : (Held(t) /\ Held(u) /\ con[t] = con[u]) => t = u
       /\ \A t \in Threads : Held(t) => ~InSeq(connections, Val(con[t]))

\* C14 witness: of the two connections of a pool one is yielded to a scope
\* and the other has just been put back by a thread that is still inside
\* Released.
C14_Witness ==
  /\ built
  /\ size = 2
  /\ \E t, u \in Threads :
       /\ Held(t)
       /\ pc[u] = "unlock85"
       /\ connections = <<Val(con[u])>>
       /\ con[u] # con[t]

\* C15: a thread that holds the lock is at a statement of Acquired or of
\* Released, never at the get of line 74, called or blocked; and when a
\* thread is at the put of line 60, which it makes with the lock held, the
\* buffer holds at most size - 1 connections, so the put does not wait.
C15_NoBlockingUnderLock ==
  \A t \in Threads :
    /\ lock = Some(t) => pc[t] \in {"l54", "l59", "l60", "unlock85"}
    /\ pc[t] \in {"idle", "wait"} => lock # Some(t)
    /\ pc[t] = "l60" =>
         /\ lock = Some(t)
         /\ Len(connections) <= size - 1
         /\ ~QFull(connections, size)

\* C15 witness: a thread is at the put of line 60 with the lock held and the
\* buffer one short of its capacity, while another thread is blocked in the
\* get of line 74.
C15_Witness ==
  \E t, u \in Threads :
    /\ pc[t] = "l60"
    /\ lock = Some(t)
    /\ Len(connections) = size - 1
    /\ pc[u] = "wait"

\* C16: when the pool is used through Get alone, a thread about to call
\* Acquired (line 79) has a connection that is a key of checked_in, a thread
\* about to call Released (line 84) has one that is a key of checked_out, and
\* no Get has ended with KeyError: no call was made out of turn.
C16_PreconditionsHold ==
  /\ \A t \in Threads :
       /\ pc[t] = "lock79" =>
            con[t] # None /\ Val(con[t]) \in Keys(checked_in)
       /\ pc[t] = "lock84" =>
            con[t] # None /\ Val(con[t]) \in Keys(checked_out)
       /\ err[t] # Some("KeyError")
  /\ \A c \in Keys(hist) : hist[c] # "bad"

\* C16 witness: one thread is inside Released, past the del of line 58, for a
\* connection it had acquired, and another is about to call Acquired for the
\* other connection.
C16_Witness ==
  \E t, u \in Threads :
    /\ pc[t] = "l59"
    /\ hist[Val(con[t])] = "Available"
    /\ pc[u] = "lock79"
    /\ Val(con[u]) \in Keys(checked_in)

\* C17 as stated: a thread blocked in Get does not hold the lock, and if
\* every scope that holds a connection eventually ends, then whenever a thread
\* is blocked in a Get with timeout None, a blocked thread takes a connection
\* in that step or in a later one.
C17_SomeWaiterServed ==
  /\ [](\A t \in Threads : pc[t] = "wait" => lock # Some(t))
  /\ (\A t \in Threads : []<>~Held(t)) =>
       []( (\E t \in Threads : pc[t] = "wait" /\ timeout[t] = None)
           => <>(got = "woke") )

\* C17 amended: a thread blocked in Get does not hold the lock, and if every
\* scope that holds a connection eventually ends, then whenever a thread is
\* blocked in a Get with timeout None, some thread takes a connection from
\* the buffer in that step or in a later one: a blocked thread, or a thread
\* that calls Get while the connection is in the buffer.
C17_SomeThreadServed ==
  /\ [](\A t \in Threads : pc[t] = "wait" => lock # Some(t))
  /\ (\A t \in Threads : []<>~Held(t)) =>
       []( (\E t \in Threads : pc[t] = "wait" /\ timeout[t] = None)
           => <>(got \in {"woke", "took"}) )

\* C17 witness: while one thread is blocked in a Get with timeout None, the
\* other has put the connection back and, calling Get again, has taken it at
\* once.
C17_Witness ==
  \E t, u \in Threads :
    /\ pc[t] = "wait"
    /\ timeout[t] = None
    /\ pc[u] = "lock79"
    /\ got = "took"
    /\ hist[Val(con[u])] = "Available"

\* C18 as stated: in every reachable state each connection in the buffer is a
\* key of checked_in and not of checked_out, the buffer holds at most
\* len(checked_in) connections, and a key of checked_in that is not in the
\* buffer is a connection some thread has taken in Get and not yet passed to
\* Acquired.
C18_BufferIsCheckedIn ==
  /\ \A i \in 1..Len(connections) :
       /\ connections[i] \in Keys(checked_in)
       /\ connections[i] \notin Keys(checked_out)
  /\ Len(connections) <= Cardinality(Keys(checked_in))
  /\ \A c \in Keys(checked_in) :
       ~InSeq(connections, c) =>
         \E t \in Threads : pc[t] = "lock79" /\ con[t] = Some(c)

\* C18 amended: in every state of a constructed pool each connection in the
\* buffer is a key of checked_in and not of checked_out, the buffer holds at
\* most len(checked_in) connections, and a key of checked_in that is not in
\* the buffer is a connection some thread has taken in Get and for which line
\* 53 of Acquired has not run, or one that a thread inside Released has
\* recorded in checked_in (line 59) and not yet put back (line 60).
C18_BufferIsCheckedInOrInTransit ==
  built =>
    /\ \A i \in 1..Len(connections) :
         /\ connections[i] \in Keys(checked_in)
         /\ connections[i] \notin Keys(checked_out)
    /\ Len(connections) <= Cardinality(Keys(checked_in))
    /\ \A c \in Keys(checked_in) :
         ~InSeq(connections, c) =>
           \E t \in Threads : pc[t] \in {"lock79", "l60"} /\ con[t] = Some(c)

\* C18 witness: both connections of a pool are keys of checked_in and neither
\* is in the buffer: one thread is before the put of line 60, the other has
\* taken its connection and waits for the lock of line 79.
C18_Witness ==
  /\ built
  /\ connections = <<>>
  /\ \E t, u \in Threads :
       /\ pc[t] = "l60"
       /\ pc[u] = "lock79"
       /\ Keys(checked_in) = {Val(con[t]), Val(con[u])}
       /\ con[t] # con[u]

\* C19: an Enum among whose entries two have attribute names that are equal
\* after translation is never built (its constructor raises KeyError),
\* whatever the value of the earlier entry; so the names EnumAttrs() returns
\* for a built Enum are pairwise distinct.
C19_CollisionRaises ==
  LET Collide == \E i, j \in 1..Len(vals) :
                   i < j /\ translate(vals[i][1]) = translate(vals[j][1])
  IN /\ Collide => epc # "built"
     /\ epc = "built" =>
          \A i, j \in 1..Len(EnumAttrs) :
            i # j => EnumAttrs[i] # EnumAttrs[j]

====
